---- MODULE Spec2Model ----
(***************************************************************************)
(* A model of gpt-token-counter (src/main.py): the text classifier         *)
(* is_text_file, the traversal get_all_text_files, the tokenizer adapter   *)
(* count_tokens_in_file, and the run of main with its worker pool,         *)
(* aggregation loop, interrupt handler and summary table.                  *)
(*                                                                         *)
(* Strings are sequences of one-character strings; bytes are 0..255.       *)
(* Python's None is the value None below.  A call that may raise returns   *)
(* an outcome [raises |-> BOOLEAN, value |-> ...].                         *)
(***************************************************************************)
EXTENDS Integers, Sequences, FiniteSets, TLC

VARIABLES
    \* is_text_file applied to one file
    probe, verdict,
    \* count_tokens_in_file applied to one file
    ct_file, ct_ret,
    \* get_all_text_files: the tree, the filter configuration, os.walk's state
    tree, exclude_dirs, include_exts, exclude_exts, walk_stack, walked,
    walk_files, walk_pc,
    \* the run of __main__ / main
    directory, num_workers, verbose, layout,
    pc, text_files, total_files, extension_stats, total_tokens,
    pool, joined, taskq, length, worker, outq, cur, pos, fetched, idx,
    sorted_extensions, row, stdout, exit_status, interrupted_at, received

classify_vars == <<probe, verdict>>
count_vars == <<ct_file, ct_ret>>
walk_vars == <<tree, exclude_dirs, include_exts, exclude_exts, walk_stack,
               walked, walk_files, walk_pc>>
run_vars == <<directory, num_workers, verbose, layout,
              pc, text_files, total_files, extension_stats, total_tokens,
              pool, joined, taskq, length, worker, outq, cur, pos, fetched, idx,
              sorted_extensions, row, stdout, exit_status, interrupted_at,
              received>>
vars == <<classify_vars, count_vars, walk_vars, run_vars>>

-----------------------------------------------------------------------------
(* Python values and string helpers *)

None == <<"<None>">>

Min(a, b) == IF a <= b THEN a ELSE b

Range(s) == {s[i] : i \in DOMAIN s}

UpperChars == <<"A","B","C","D","E","F","G","H","I","J","K","L","M",
                "N","O","P","Q","R","S","T","U","V","W","X","Y","Z">>
LowerChars == <<"a","b","c","d","e","f","g","h","i","j","k","l","m",
                "n","o","p","q","r","s","t","u","v","w","x","y","z">>

\* str.lower() on one character
lower_char(c) ==
    IF \E i \in DOMAIN UpperChars : UpperChars[i] = c
    THEN LowerChars[CHOOSE i \in DOMAIN UpperChars : UpperChars[i] = c]
    ELSE c

\* str.lower()
lower(s) == [i \in 1..Len(s) |-> lower_char(s[i])]

\* str.endswith(suffix)
endswith(s, suffix) ==
    /\ Len(suffix) <= Len(s)
    /\ SubSeq(s, Len(s) - Len(suffix) + 1, Len(s)) = suffix

\* a call that returned v / a call that raised an Exception
Returned(v) == [raises |-> FALSE, value |-> v]
Raised == [raises |-> TRUE, value |-> None]

-----------------------------------------------------------------------------
(* is_text_file, src/main.py lines 14-31 *)

blocksize == 512

\* bytearray({7, 8, 9, 10, 12, 13, 27} | set(range(0x20, 0x100)))
text_chars == {7, 8, 9, 10, 12, 13, 27} \cup (32..255)

\* open(file_path, 'rb') followed by f.read(n): the first n bytes, or an
\* exception when the open or the read fails
open_read(file, n) ==
    IF file.status # "ok" THEN Raised
    ELSE Returned(SubSeq(file.content, 1, Min(n, Len(file.content))))

\* the body of the try block: returns False on a null byte or on a byte
\* outside text_chars, and falls through to `return True` otherwise
is_text_try(file, n) ==
    LET r == open_read(file, n) IN
    IF r.raises THEN Raised
    ELSE LET chunk == r.value IN
         IF 0 \in Range(chunk) THEN Returned(FALSE)
         ELSE IF ~ (\A i \in DOMAIN chunk : chunk[i] \in text_chars)
              THEN Returned(FALSE)
              ELSE Returned(TRUE)

\* a faulty variant: the escape character 27 is missing from text_chars and
\* the except clause is gone
is_text_file_no_esc(file, n) ==
    LET r == open_read(file, n) IN
    IF r.raises THEN Raised
    ELSE LET chunk == r.value IN
         IF 0 \in Range(chunk) THEN Returned(FALSE)
         ELSE Returned(\A i \in DOMAIN chunk : chunk[i] \in text_chars \ {27})

\* is_text_file(file_path, blocksize): `except Exception: return False`
is_text_file(file, n) ==
    LET r == is_text_try(file, n) IN
    IF r.raises THEN Returned(FALSE) ELSE r

-----------------------------------------------------------------------------
(* count_tokens_in_file, src/main.py lines 59-74 *)

NoExtension == <<"N","o"," ","E","x","t","e","n","s","i","o","n">>

\* str.rfind(c) as a 1-based index, 0 when c does not occur
rfind(s, c) ==
    IF \E i \in DOMAIN s : s[i] = c
    THEN CHOOSE i \in DOMAIN s : s[i] = c /\ \A j \in DOMAIN s : s[j] = c => j <= i
    ELSE 0

\* a faulty variant: the last '.' of the whole path splits it, also when it
\* lies in a directory component or leads the file name
splitext_any_dot(p) ==
    LET dotIndex == rfind(p, ".") IN
    IF dotIndex > 0
    THEN <<SubSeq(p, 1, dotIndex - 1), SubSeq(p, dotIndex, Len(p))>>
    ELSE <<p, <<>> >>

\* os.path.splitext(p): the extension starts at the last '.' of the last
\* path component, unless only '.' characters precede it in that component
splitext(p) ==
    LET sepIndex == rfind(p, "/")
        dotIndex == rfind(p, ".")
    IN  IF /\ dotIndex > sepIndex
           /\ \E k \in (sepIndex + 1)..(dotIndex - 1) : p[k] # "."
        THEN <<SubSeq(p, 1, dotIndex - 1), SubSeq(p, dotIndex, Len(p))>>
        ELSE <<p, <<>> >>

\* open(file_path, 'r', encoding='utf-8', errors='ignore') and f.read()
read_text(file) == IF file.status = "read_fails" THEN Raised ELSE Returned(file)

\* encoding.encode(content): the token list of the content, or an exception
encode(encoding, content) ==
    IF content.status = "encode_fails" THEN Raised
    ELSE Returned([i \in 1..content.ntokens |-> encoding])

\* the body of the try block, lines 65-71
count_tokens_try(encoding, file) ==
    LET content == read_text(file) IN
    IF content.raises THEN Raised
    ELSE LET tokens == encode(encoding, content.value) IN
         IF tokens.raises THEN Raised
         ELSE LET token_count == Len(tokens.value)
                  ext == splitext(file.path)[2]
              IN  Returned(<<IF ext # <<>> THEN lower(ext) ELSE NoExtension,
                             token_count>>)

\* count_tokens_in_file(encoding, file_path): `except Exception` returns (None, 0)
count_tokens_in_file(encoding, file) ==
    LET r == count_tokens_try(encoding, file) IN
    IF r.raises THEN <<None, 0>> ELSE r.value

-----------------------------------------------------------------------------
(* get_all_text_files, src/main.py lines 34-56 *)

\* an optional list argument: None, or a list
NoneList == [is_none |-> TRUE, items |-> <<>>]
List(items) == [is_none |-> FALSE, items |-> items]

\* Python's truth value of an optional list: None and [] are false
truthy(l) == ~ l.is_none /\ Len(l.items) > 0

\* os.path.join(a, b) for a relative b
join(a, b) ==
    IF a = <<>> \/ a[Len(a)] = "/" THEN a \o b ELSE a \o <<"/">> \o b

\* the path string os.walk reports for the directory reached from top by the
\* component names comps
RECURSIVE dir_path(_, _)
dir_path(top, comps) ==
    IF comps = <<>> THEN top
    ELSE join(dir_path(top, SubSeq(comps, 1, Len(comps) - 1)), comps[Len(comps)])

\* the names of the subdirectories and of the files of directory d
subdir_names(t, d) ==
    {c[Len(c)] : c \in {x \in t.dirs : Len(x) = Len(d) + 1 /\ SubSeq(x, 1, Len(d)) = d}}
files_in(t, d) == {f \in t.files : f.dir = d}

\* the orders in which a directory listing may report the set S
Listings(S) == {s \in [1..Cardinality(S) -> S] : Range(s) = S}

\* a faulty variant: a directory is dropped as soon as its name starts with
\* an excluded name
prune_by_prefix(dirs, excluded) ==
    IF excluded.is_none THEN dirs
    ELSE SelectSeq(dirs, LAMBDA d :
            ~ \E e \in Range(excluded.items) :
                Len(e) <= Len(d) /\ SubSeq(d, 1, Len(e)) = e)

\* lines 41-42: dirs[:] = [d for d in dirs if d not in exclude_dirs]
prune(dirs, excluded) ==
    IF excluded.is_none THEN dirs
    ELSE SelectSeq(dirs, LAMBDA d : d \notin Range(excluded.items))

\* a faulty variant: the configured extension is compared as typed
ext_matches_as_typed(name, exts) ==
    \E i \in DOMAIN exts.items : endswith(lower(name), exts.items[i])

\* any(name.lower().endswith(ext.lower()) for ext in exts)
ext_matches(name, exts) ==
    \E i \in DOMAIN exts.items : endswith(lower(name), lower(exts.items[i]))

\* lines 45-54: the file survives the classifier and both extension filters
keeps(file, inc, exc) ==
    /\ is_text_file(file, blocksize).value
    /\ truthy(inc) => ext_matches(file.name, inc)
    /\ truthy(exc) => ~ ext_matches(file.name, exc)

\* lines 43-55 for one directory: the paths appended, in listing order
appended(root, files, inc, exc) ==
    LET kept == SelectSeq(files, LAMBDA f : keeps(f, inc, exc))
    IN  [i \in 1..Len(kept) |-> join(root, kept[i].name)]

\* one iteration of `for root, dirs, files in os.walk(directory)`: os.walk
\* reports the next directory, the body prunes dirs and filters the files,
\* and os.walk goes on into what is left of dirs, depth first
WalkIteration ==
    /\ walk_pc = "walk"
    /\ walk_stack # <<>>
    /\ LET d == Head(walk_stack) IN
       \E dirs \in Listings(subdir_names(tree, d)),
          files \in Listings(files_in(tree, d)) :
          LET left == prune(dirs, exclude_dirs) IN
          /\ walked' = walked \cup {d}
          /\ walk_files' = walk_files \o
                appended(dir_path(tree.top, d), files, include_exts, exclude_exts)
          /\ walk_stack' = [i \in 1..Len(left) |-> Append(d, left[i])]
                              \o Tail(walk_stack)
    /\ UNCHANGED <<tree, exclude_dirs, include_exts, exclude_exts, walk_pc>>
    /\ UNCHANGED <<classify_vars, count_vars, run_vars>>

\* line 56: os.walk is exhausted and the list is returned
WalkReturn ==
    /\ walk_pc = "walk"
    /\ walk_stack = <<>>
    /\ walk_pc' = "done"
    /\ UNCHANGED <<tree, exclude_dirs, include_exts, exclude_exts, walk_stack,
                   walked, walk_files>>
    /\ UNCHANGED <<classify_vars, count_vars, run_vars>>

-----------------------------------------------------------------------------
(* main and __main__, src/main.py lines 84-231: data and pure helpers *)

chunksize == 100

progress_every == 1000

\* format_number(n), f"{n:,}": the decimal digits in groups of three; the
\* groups are kept as numbers, most significant first (1234567 is <<1, 234, 567>>)
RECURSIVE format_number(_)
format_number(n) ==
    IF n < 1000 THEN <<n>> ELSE Append(format_number(n \div 1000), n % 1000)

\* one print call: the kind of line and the values formatted into it
Line(kind, ext, a, b, c) == [kind |-> kind, ext |-> ext, a |-> a, b |-> b, c |-> c]
Plain(kind) == Line(kind, <<>>, <<>>, <<>>, <<>>)

\* the kinds of line that make up the final summary table, lines 139-145
TableKinds == {"header", "row", "separator", "sum"}

\* the candidate file behind the i-th path of text_files
candidate(i) == layout.pattern[((i - 1) % Len(layout.pattern)) + 1]

\* the tokenizer chosen at lines 86-90, handed to every worker by partial()
encoding == "encoding"

\* count_func = partial(count_tokens_in_file, encoding), line 107
count_func(i) == count_tokens_in_file(encoding, candidate(i))

\* a faulty variant: the items left over after the last full chunk are never
\* sent
get_tasks_full_only(it, size) ==
    [c \in 1..(Len(it) \div size) |->
        [k \in 1..size |-> it[(c - 1) * size + k]]]

\* Pool._get_tasks(func, it, size) as used by imap_unordered, line 110: the
\* list cut into consecutive chunks of `size` items, the last one shorter
get_tasks(it, size) ==
    [c \in 1..((Len(it) + size - 1) \div size) |->
        [k \in 1..Min(size, Len(it) - (c - 1) * size) |-> it[(c - 1) * size + k]]]

\* mapstar: what a worker computes for one chunk, one result per item in order
mapstar(chunk) == [k \in 1..Len(chunk) |-> count_func(chunk[k])]

\* a faulty variant: the token count is dropped when the extension is first
\* seen
aggregate_first_lost(stats, ext, count) ==
    IF \E j \in DOMAIN stats : stats[j].ext = ext
    THEN [j \in DOMAIN stats |->
            IF stats[j].ext = ext
            THEN [stats[j] EXCEPT !.files = @ + 1, !.tokens = @ + count]
            ELSE stats[j]]
    ELSE Append(stats, [ext |-> ext, files |-> 1, tokens |-> 0])

\* lines 114-117: extension_stats, a dict in insertion order, after one record
aggregate(stats, ext, count) ==
    LET known == IF \E j \in DOMAIN stats : stats[j].ext = ext
                 THEN stats
                 ELSE Append(stats, [ext |-> ext, files |-> 0, tokens |-> 0])
    IN  [j \in DOMAIN known |->
            IF known[j].ext = ext
            THEN [known[j] EXCEPT !.files = @ + 1, !.tokens = @ + count]
            ELSE known[j]]

\* line 136: sorted(..., key=tokens, reverse=True), a stable sort
RECURSIVE sorted_by_tokens(_)
sorted_by_tokens(items) ==
    IF items = <<>> THEN <<>>
    ELSE LET s == sorted_by_tokens(SubSeq(items, 1, Len(items) - 1))
             x == items[Len(items)]
             k == Cardinality({j \in DOMAIN s : s[j].tokens >= x.tokens})
         IN  SubSeq(s, 1, k) \o <<x>> \o SubSeq(s, k + 1, Len(s))

\* the exit status of an interpreter that ends on an uncaught
\* KeyboardInterrupt: 1 with the traceback, or 130 where the interpreter
\* re-raises SIGINT on itself
UncaughtStatus == {1, 130}

-----------------------------------------------------------------------------
(* main and __main__: the steps of the run *)

args == <<directory, num_workers, verbose, layout>>
others == <<classify_vars, count_vars, walk_vars>>

NoChunk == [task |-> 0, result |-> <<>>]

\* lines 148-231 and 85-90: the arguments are parsed, main is called and the
\* encoding is chosen; nothing looks at the directory
ParseArgs ==
    /\ pc = "start"
    /\ pc' = "scan"
    /\ UNCHANGED <<args, text_files, total_files, extension_stats, total_tokens,
                   pool, joined, taskq, length, worker, outq, cur, pos, fetched,
                   idx, sorted_extensions, row, stdout, exit_status,
                   interrupted_at, received, others>>

\* lines 92-99: os.walk reports nothing for a path that is missing or is not
\* a directory (it swallows the listing error), so text_files is then empty;
\* with no file main prints the notice and returns, and the script ends with
\* status 0
Scan ==
    /\ pc = "scan"
    /\ LET found == IF directory = "dir" THEN [i \in 1..layout.n |-> i] ELSE <<>>
           n == Len(found)
       IN  /\ text_files' = found
           /\ total_files' = n
           /\ stdout' = stdout
                \o <<Plain("scanning"),
                     Line("found", <<>>, format_number(n), <<>>, <<>>)>>
                \o (IF n = 0 THEN <<Plain("nofiles")>> ELSE <<>>)
           /\ pc' = IF n = 0 THEN "exit" ELSE "pool"
           /\ exit_status' = IF n = 0 THEN 0 ELSE exit_status
    /\ UNCHANGED <<args, extension_stats, total_tokens, pool, joined, taskq,
                   length, worker, outq, cur, pos, fetched, idx,
                   sorted_extensions, row, interrupted_at, received, others>>

\* lines 101-107: the accumulators are initialised and the pool is created
CreatePool ==
    /\ pc = "pool"
    /\ extension_stats' = <<>>
    /\ total_tokens' = 0
    /\ pool' = "running"
    /\ worker' = [w \in 1..num_workers |-> 0]
    /\ pc' = "imap"
    /\ UNCHANGED <<args, text_files, total_files, joined, taskq, length, outq,
                   cur, pos, fetched, idx, sorted_extensions, row, stdout,
                   exit_status, interrupted_at, received, others>>

\* line 110: imap_unordered cuts text_files into chunks and queues one task
\* per chunk; the iterator it returns ends after that many results
ImapUnordered ==
    /\ pc = "imap"
    /\ LET tasks == get_tasks(text_files, chunksize) IN
       /\ taskq' = [c \in 1..Len(tasks) |-> c]
       /\ length' = Len(tasks)
    /\ pc' = "loop"
    /\ UNCHANGED <<args, text_files, total_files, extension_stats, total_tokens,
                   pool, joined, worker, outq, cur, pos, fetched, idx,
                   sorted_extensions, row, stdout, exit_status, interrupted_at,
                   received, others>>

\* a worker process takes the next task from the task queue
WorkerGet(w) ==
    /\ pc # "exit"
    /\ pool \in {"running", "closed"}
    /\ worker[w] = 0
    /\ taskq # <<>>
    /\ worker' = [worker EXCEPT ![w] = Head(taskq)]
    /\ taskq' = Tail(taskq)
    /\ UNCHANGED <<args, pc, text_files, total_files, extension_stats,
                   total_tokens, pool, joined, length, outq, cur, pos, fetched,
                   idx, sorted_extensions, row, stdout, exit_status,
                   interrupted_at, received, others>>

\* a worker process has applied count_func to every item of its chunk and
\* puts the list of results on the result queue
WorkerPut(w) ==
    /\ pc # "exit"
    /\ pool \in {"running", "closed"}
    /\ worker[w] # 0
    /\ outq' = Append(outq,
                 [task |-> worker[w],
                  result |-> mapstar(get_tasks(text_files, chunksize)[worker[w]])])
    /\ worker' = [worker EXCEPT ![w] = 0]
    /\ UNCHANGED <<args, pc, text_files, total_files, extension_stats,
                   total_tokens, pool, joined, taskq, length, cur, pos, fetched,
                   idx, sorted_extensions, row, stdout, exit_status,
                   interrupted_at, received, others>>

\* line 111, the iterator: the current chunk of results is used up and the
\* next one is taken from the result queue, in completion order
FetchChunk ==
    /\ pc = "loop"
    /\ pos = Len(cur.result)
    /\ fetched < length
    /\ outq # <<>>
    /\ cur' = Head(outq)
    /\ outq' = Tail(outq)
    /\ pos' = 0
    /\ fetched' = fetched + 1
    /\ UNCHANGED <<args, pc, text_files, total_files, extension_stats,
                   total_tokens, pool, joined, taskq, length, worker, idx,
                   sorted_extensions, row, stdout, exit_status, interrupted_at,
                   received, others>>

\* lines 111-120: one iteration of the aggregation loop.  received is the
\* history of the records the loop got, by the path they belong to
LoopBody ==
    /\ pc = "loop"
    /\ pos < Len(cur.result)
    /\ LET rec == cur.result[pos + 1]
           ext == rec[1]
           count == rec[2]
           path == get_tasks(text_files, chunksize)[cur.task][pos + 1]
       IN  /\ idx' = idx + 1
           /\ pos' = pos + 1
           /\ received' = [received EXCEPT ![path] = Append(@, rec)]
           /\ IF ext = None
              THEN UNCHANGED <<extension_stats, total_tokens, stdout>>
              ELSE /\ extension_stats' = aggregate(extension_stats, ext, count)
                   /\ total_tokens' = total_tokens + count
                   /\ stdout' =
                        IF verbose /\ idx' % progress_every = 0
                        THEN Append(stdout,
                               Line("progress", <<>>, format_number(idx'),
                                    format_number(total_files),
                                    format_number(total_tokens')))
                        ELSE stdout
    /\ UNCHANGED <<args, pc, text_files, total_files, pool, joined, taskq,
                   length, worker, outq, cur, fetched, sorted_extensions, row,
                   exit_status, interrupted_at, others>>

\* line 111: the iterator is exhausted, the loop ends and the else branch runs
LoopEnd ==
    /\ pc = "loop"
    /\ pos = Len(cur.result)
    /\ fetched = length
    /\ pc' = "close"
    /\ UNCHANGED <<args, text_files, total_files, extension_stats, total_tokens,
                   pool, joined, taskq, length, worker, outq, cur, pos, fetched,
                   idx, sorted_extensions, row, stdout, exit_status,
                   interrupted_at, received, others>>

\* line 132: pool.close()
Close ==
    /\ pc = "close"
    /\ pool' = "closed"
    /\ pc' = "join"
    /\ UNCHANGED <<args, text_files, total_files, extension_stats, total_tokens,
                   joined, taskq, length, worker, outq, cur, pos, fetched, idx,
                   sorted_extensions, row, stdout, exit_status, interrupted_at,
                   received, others>>

\* line 133: pool.join() returns once every worker has finished
Join ==
    /\ pc = "join"
    /\ taskq = <<>>
    /\ \A w \in DOMAIN worker : worker[w] = 0
    /\ joined' = TRUE
    /\ pc' = "sort"
    /\ UNCHANGED <<args, text_files, total_files, extension_stats, total_tokens,
                   pool, taskq, length, worker, outq, cur, pos, fetched, idx,
                   sorted_extensions, row, stdout, exit_status, interrupted_at,
                   received, others>>

\* line 136
Sort ==
    /\ pc = "sort"
    /\ sorted_extensions' = sorted_by_tokens(extension_stats)
    /\ row' = 0
    /\ pc' = "header"
    /\ UNCHANGED <<args, text_files, total_files, extension_stats, total_tokens,
                   pool, joined, taskq, length, worker, outq, cur, pos, fetched,
                   idx, stdout, exit_status, interrupted_at, received, others>>

\* lines 139-140
PrintHeader ==
    /\ pc = "header"
    /\ stdout' = Append(stdout, Plain("header"))
    /\ pc' = "rows"
    /\ UNCHANGED <<args, text_files, total_files, extension_stats, total_tokens,
                   pool, joined, taskq, length, worker, outq, cur, pos, fetched,
                   idx, sorted_extensions, row, exit_status, interrupted_at,
                   received, others>>

\* lines 141-142: one row of the table
PrintRow ==
    /\ pc = "rows"
    /\ row < Len(sorted_extensions)
    /\ LET stats == sorted_extensions[row + 1] IN
       stdout' = Append(stdout,
                   Line("row", stats.ext, format_number(stats.files),
                        format_number(stats.tokens), <<>>))
    /\ row' = row + 1
    /\ UNCHANGED <<args, pc, text_files, total_files, extension_stats,
                   total_tokens, pool, joined, taskq, length, worker, outq, cur,
                   pos, fetched, idx, sorted_extensions, exit_status,
                   interrupted_at, received, others>>

\* line 143
PrintSeparator ==
    /\ pc = "rows"
    /\ row = Len(sorted_extensions)
    /\ stdout' = Append(stdout, Plain("separator"))
    /\ pc' = "sum"
    /\ UNCHANGED <<args, text_files, total_files, extension_stats, total_tokens,
                   pool, joined, taskq, length, worker, outq, cur, pos, fetched,
                   idx, sorted_extensions, row, exit_status, interrupted_at,
                   received, others>>

\* line 144: the SUM row prints total_files and total_tokens
PrintSum ==
    /\ pc = "sum"
    /\ stdout' = Append(stdout,
                   Line("sum", <<>>, format_number(total_files),
                        format_number(total_tokens), <<>>))
    /\ pc' = "end"
    /\ UNCHANGED <<args, text_files, total_files, extension_stats, total_tokens,
                   pool, joined, taskq, length, worker, outq, cur, pos, fetched,
                   idx, sorted_extensions, row, exit_status, interrupted_at,
                   received, others>>

\* line 145, then main returns and the script ends with status 0
PrintEnd ==
    /\ pc = "end"
    /\ stdout' = Append(stdout, Plain("separator"))
    /\ pc' = "exit"
    /\ exit_status' = 0
    /\ UNCHANGED <<args, text_files, total_files, extension_stats, total_tokens,
                   pool, joined, taskq, length, worker, outq, cur, pos, fetched,
                   idx, sorted_extensions, row, interrupted_at, received,
                   others>>

\* a faulty variant: the handler reports the interrupt and exits without
\* tearing the pool down
KeyboardInterruptNoTeardown ==
    /\ pc \in {"imap", "loop"}
    /\ stdout' = Append(stdout, Plain("interrupted"))
    /\ exit_status' = 1
    /\ interrupted_at' = pc
    /\ pc' = "exit"
    /\ UNCHANGED <<args, text_files, total_files, extension_stats, total_tokens,
                   pool, joined, taskq, worker,
                   length, outq, cur, pos, fetched, idx, sorted_extensions, row,
                   received, others>>

\* lines 121-125: a KeyboardInterrupt raised inside the try block (lines
\* 110-120) is caught: the pool is terminated and joined, and sys.exit(1)
KeyboardInterruptInTry ==
    /\ pc \in {"imap", "loop"}
    /\ stdout' = Append(stdout, Plain("interrupted"))
    /\ pool' = "terminated"
    /\ taskq' = <<>>
    /\ worker' = [w \in DOMAIN worker |-> 0]
    /\ joined' = TRUE
    /\ exit_status' = 1
    /\ interrupted_at' = pc
    /\ pc' = "exit"
    /\ UNCHANGED <<args, text_files, total_files, extension_stats, total_tokens,
                   length, outq, cur, pos, fetched, idx, sorted_extensions, row,
                   received, others>>

\* a KeyboardInterrupt raised anywhere else is caught by nothing in the
\* script: the interpreter ends with a traceback on stderr, main calls neither
\* terminate nor join, and what was printed stays printed
KeyboardInterruptUncaught ==
    /\ pc \in {"start", "scan", "pool", "close", "join", "sort", "header",
               "rows", "sum", "end"}
    /\ \E status \in UncaughtStatus : exit_status' = status
    /\ interrupted_at' = pc
    /\ pc' = "exit"
    /\ UNCHANGED <<args, text_files, total_files, extension_stats, total_tokens,
                   pool, joined, taskq, length, worker, outq, cur, pos, fetched,
                   idx, sorted_extensions, row, stdout, received, others>>

-----------------------------------------------------------------------------
(* is_text_file and count_tokens_in_file as single calls *)

NoFile == [status |-> "none", content |-> <<>>]
NotClassified == [called |-> FALSE, out |-> Returned(FALSE)]
NoPath == [path |-> <<>>, status |-> "none", ntokens |-> 0]
NotCounted == [called |-> FALSE, out |-> <<None, 0>>]

\* is_text_file(file_path) with the default blocksize
Classify ==
    /\ probe.status # "none"
    /\ ~ verdict.called
    /\ verdict' = [called |-> TRUE, out |-> is_text_file(probe, blocksize)]
    /\ UNCHANGED <<probe, count_vars, walk_vars, run_vars>>

\* count_tokens_in_file(encoding, file_path)
Count ==
    /\ ct_file.status # "none"
    /\ ~ ct_ret.called
    /\ ct_ret' = [called |-> TRUE, out |-> count_tokens_in_file(encoding, ct_file)]
    /\ UNCHANGED <<ct_file, classify_vars, walk_vars, run_vars>>

-----------------------------------------------------------------------------
(* Bounds and inputs *)

\* bytes a probed file may hold beyond the block that is read
MaxExtra == 2
\* tokens the encoder may return for a file counted on its own
MaxTokens == 2
\* depth of the directory chain below the root
MaxDepth == 2
\* worker processes
MaxWorkers == 2
\* full chunks of candidate files
MaxChunks == 2
\* thousands of candidate files in the long runs
MaxThousands == 1

\* file contents: the byte 'A' everywhere but at two places
Content(len, p1, b1, p2, b2) ==
    [i \in 1..len |-> IF i = p1 THEN b1 ELSE IF i = p2 THEN b2 ELSE 65]

ProbeLengths == {0, 1, blocksize - 1, blocksize} \cup {blocksize + k : k \in 1..MaxExtra}
ProbePlaces == {1, blocksize} \cup {blocksize + k : k \in 1..MaxExtra}

DirParts == {<<>>, <<"d", "/">>, <<"a", ".", "b", "/">>, <<".", "g", "i", "t", "/">>,
             <<"/", "x", ".", "y", "/", "z", "/">>}
NameParts == {<<"f">>, <<"f", ".", "p", "y">>, <<"F", ".", "P", "Y">>,
              <<".", "b", "a", "s", "h", "r", "c">>,
              <<"a", ".", "t", "a", "r", ".", "G", "z">>,
              <<"f", ".">>, <<".", "a", ".", "B">>,
              <<"M", "a", "k", "e", "f", "i", "l", "e">>,
              <<".", ".", "a", "b", "c", "d", "e">>}

DirNames == {<<".", "g", "i", "t">>, <<".", "g", "i", "t", "h", "u", "b">>,
             <<"s", "r", "c">>}
TopNames == {<<"r", "e", "p", "o">>, <<".", "g", "i", "t">>}
FileNames == {<<"f", "o", "o", ".", "p", "y">>, <<"F", "O", "O", ".", "P", "Y">>,
              <<"a", ".", "m", "d">>, <<"p", "y">>}

\* a chain of nested directories below the root, and one more directory
\* beside its first; every directory holds a file of the same name and content
Tree(top, chain, side, nm, body) ==
    LET dirs == {<<>>, <<side>>} \cup {SubSeq(chain, 1, k) : k \in 1..Len(chain)}
    IN  [top |-> top,
         dirs |-> dirs,
         files |-> {[dir |-> d, name |-> nm, status |-> body.status,
                     content |-> body.content] : d \in dirs}]

FileBodies == {[status |-> "ok", content |-> <<104, 105, 10>>],
               [status |-> "ok", content |-> <<127, 69, 0>>],
               [status |-> "open_fails", content |-> <<104, 105>>]}

ExcludeDirsArgs == {NoneList, List(<<>>), List(<<<<".", "g", "i", "t">>>>),
                    List(<<<<".", "g", "i", "t">>, <<"s", "r", "c">>>>)}
IncludeExtsArgs == {NoneList, List(<<>>), List(<<<<".", "P", "Y">>>>),
                    List(<<<<".", "m", "d">>, <<".", "p", "y">>>>)}
ExcludeExtsArgs == {NoneList, List(<<<<".", "p", "y">>>>), List(<<<<".", "M", "D">>>>)}

\* candidate files of the runs: the path, whether reading and encoding work,
\* and the number of tokens the encoder returns
Kpy == [path |-> <<"s", "/", "a", ".", "p", "y">>, status |-> "ok", ntokens |-> 3]
KPY == [path |-> <<"B", ".", "P", "Y">>, status |-> "ok", ntokens |-> 1]
Krc == [path |-> <<".", "r", "c">>, status |-> "ok", ntokens |-> 2]
Kmd == [path |-> <<"c", ".", "m", "d">>, status |-> "ok", ntokens |-> 5]
Kunreadable == [path |-> <<"d", ".", "m", "d">>, status |-> "read_fails", ntokens |-> 0]
Kspecial == [path |-> <<"e", ".", "p", "y">>, status |-> "encode_fails", ntokens |-> 0]

\* the candidate list repeats one of these: every file unreadable, or a mix
\* of extensions, letter cases, a dotfile and both kinds of failure
Patterns == {<<Kunreadable>>, <<Krc, Kmd, KPY, Kspecial, Kpy, Kunreadable>>}

ShortCounts == {c * chunksize + r : c \in 0..MaxChunks, r \in {0, 1}}
LongCounts == {k * progress_every : k \in 1..MaxThousands}

-----------------------------------------------------------------------------
(* Initial states and specifications *)

ClassifyIdle == probe = NoFile /\ verdict = NotClassified
CountIdle == ct_file = NoPath /\ ct_ret = NotCounted
WalkIdle ==
    /\ tree = [top |-> <<>>, dirs |-> {}, files |-> {}]
    /\ exclude_dirs = NoneList /\ include_exts = NoneList /\ exclude_exts = NoneList
    /\ walk_stack = <<>> /\ walked = {} /\ walk_files = <<>> /\ walk_pc = "idle"

\* the state of the script before its first step, but for pc and the arguments
RunStart ==
    /\ text_files = <<>> /\ total_files = 0
    /\ extension_stats = <<>> /\ total_tokens = 0
    /\ pool = "none" /\ joined = FALSE /\ taskq = <<>> /\ length = 0
    /\ worker = <<>> /\ outq = <<>>
    /\ cur = NoChunk /\ pos = 0 /\ fetched = 0 /\ idx = 0
    /\ sorted_extensions = <<>> /\ row = 0
    /\ stdout = <<>> /\ exit_status = -1 /\ interrupted_at = "never"

RunIdle ==
    /\ directory = "missing" /\ num_workers = 1 /\ verbose = FALSE
    /\ layout = [n |-> 0, pattern |-> <<Kpy>>]
    /\ received = <<>>
    /\ pc = "idle"
    /\ RunStart

\* a run over counts candidate files
RunInit(counts, workers) ==
    /\ directory \in {"dir", "missing", "file"}
    /\ num_workers \in workers
    /\ layout \in [n : counts, pattern : Patterns]
    \* below progress_every files the flag changes no step of the run
    /\ verbose \in (IF layout.n < progress_every THEN {FALSE} ELSE BOOLEAN)
    \* a path that is no directory holds no file, and with no file the
    \* pattern is immaterial
    /\ directory # "dir" => layout.n = 0
    /\ layout.n = 0 => layout.pattern = <<Kunreadable>>
    /\ received = [i \in 1..layout.n |-> <<>>]
    /\ pc = "start"
    /\ RunStart

Init ==
    /\ RunInit(ShortCounts, 1..MaxWorkers)
    /\ ClassifyIdle /\ CountIdle /\ WalkIdle

InitLong ==
    /\ RunInit({0} \cup LongCounts, {1})
    /\ ClassifyIdle /\ CountIdle /\ WalkIdle

InitClassify ==
    /\ \/ \E len \in ProbeLengths, p1 \in ProbePlaces, b1 \in 0..255,
             p2 \in ProbePlaces, b2 \in {0, 31, 65} :
             probe = [status |-> "ok", content |-> Content(len, p1, b1, p2, b2)]
       \/ \E st \in {"open_fails", "read_fails"}, len \in ProbeLengths :
             probe = [status |-> st, content |-> Content(len, 1, 65, 1, 65)]
    /\ verdict = NotClassified
    /\ CountIdle /\ WalkIdle /\ RunIdle

InitCount ==
    /\ \E d \in DirParts, nm \in NameParts :
          \/ \E t \in 0..MaxTokens :
                ct_file = [path |-> d \o nm, status |-> "ok", ntokens |-> t]
          \/ \E st \in {"read_fails", "encode_fails"} :
                ct_file = [path |-> d \o nm, status |-> st, ntokens |-> 0]
    /\ ct_ret = NotCounted
    /\ ClassifyIdle /\ WalkIdle /\ RunIdle

InitWalk ==
    /\ \E top \in TopNames, depth \in 1..MaxDepth, side \in DirNames,
          nm \in FileNames, body \in FileBodies :
          \E chain \in [1..depth -> DirNames] :
             tree = Tree(top, chain, side, nm, body)
    /\ exclude_dirs \in ExcludeDirsArgs
    /\ include_exts \in IncludeExtsArgs
    /\ exclude_exts \in ExcludeExtsArgs
    /\ walk_stack = << <<>> >>
    /\ walked = {}
    /\ walk_files = <<>>
    /\ walk_pc = "walk"
    /\ ClassifyIdle /\ CountIdle /\ RunIdle

Next ==
    \/ ParseArgs
    \/ Scan
    \/ CreatePool
    \/ ImapUnordered
    \/ \E w \in DOMAIN worker : WorkerGet(w)
    \/ \E w \in DOMAIN worker : WorkerPut(w)
    \/ FetchChunk
    \/ LoopBody
    \/ LoopEnd
    \/ Close
    \/ Join
    \/ Sort
    \/ PrintHeader
    \/ PrintRow
    \/ PrintSeparator
    \/ PrintSum
    \/ PrintEnd
    \/ KeyboardInterruptInTry
    \/ KeyboardInterruptUncaught

NextWalk == WalkIteration \/ WalkReturn

Spec == Init /\ [][Next]_vars
SpecLong == InitLong /\ [][Next]_vars
SpecClassify == InitClassify /\ [][Classify]_vars
SpecCount == InitCount /\ [][Count]_vars
SpecWalk == InitWalk /\ [][NextWalk]_vars

-----------------------------------------------------------------------------
(* Vocabulary of the properties *)

\* the number a formatted figure stands for
RECURSIVE Figure(_)
Figure(groups) ==
    IF groups = <<>> THEN 0
    ELSE Figure(SubSeq(groups, 1, Len(groups) - 1)) * 1000 + groups[Len(groups)]

\* the lines of a kind on stdout, as positions
LinesOf(kind) == {j \in DOMAIN stdout : stdout[j].kind = kind}

\* the aggregation loop ran to its end (the iterator was exhausted)
LoopDone ==
    \/ pc \in {"close", "join", "sort", "header", "rows", "sum", "end"}
    \/ /\ pc = "exit"
       /\ total_files > 0
       /\ interrupted_at \in {"never", "close", "join", "sort", "header", "rows",
                              "sum", "end"}

\* the run ended normally, after the whole table
CompletedNormally == pc = "exit" /\ interrupted_at = "never" /\ total_files > 0

\* the candidate files whose read or encode fails
Failing == {i \in 1..total_files : candidate(i).status # "ok"}

RECURSIVE TokensUpTo(_)
TokensUpTo(n) == IF n = 0 THEN 0 ELSE TokensUpTo(n - 1) + count_func(n)[2]

RECURSIVE StatsTokens(_)
StatsTokens(stats) ==
    IF stats = <<>> THEN 0 ELSE stats[1].tokens + StatsTokens(Tail(stats))

RECURSIVE RowFiles(_)
RowFiles(lines) ==
    IF lines = <<>> THEN 0
    ELSE (IF lines[1].kind = "row" THEN Figure(lines[1].a) ELSE 0) + RowFiles(Tail(lines))

-----------------------------------------------------------------------------
(* C1 *)

\* C1: whatever the worker count and the interleaving of the workers, no path
\* is ever delivered twice to the aggregation loop, and once the loop has run
\* to its end it has consumed exactly len(text_files) records, exactly one per
\* path, which is the record count_tokens_in_file returns for that path: the
\* sentinel (None, 0) for a path whose read or encode fails.
C1_OneRecordPerPath ==
    /\ \A i \in DOMAIN received : Len(received[i]) <= 1
    /\ LoopDone =>
        /\ idx = Len(text_files)
        /\ idx = layout.n
        /\ \A i \in 1..layout.n :
            /\ Len(received[i]) = 1
            /\ received[i][1] = count_func(i)
            /\ candidate(i).status # "ok" => received[i][1] = <<None, 0>>

\* two workers, three chunks delivered out of input order, failures among them
C1_Witness ==
    /\ pc = "close"
    /\ num_workers > 1
    /\ length > 2
    /\ cur.task # length
    /\ \E i \in DOMAIN received : received[i] = << <<None, 0>> >>
    /\ \E i \in DOMAIN received : received[i] # << <<None, 0>> >>

-----------------------------------------------------------------------------
(* C2 *)

\* C2: after every record the aggregation loop consumes, total_tokens equals
\* the sum of the 'tokens' fields of extension_stats; once the loop has run to
\* its end it equals the sum of the counts count_tokens_in_file returns over
\* all candidate files, in whatever order the records arrived, and that is
\* the token figure of the SUM row.
C2_TotalIsSum ==
    /\ total_tokens = StatsTokens(extension_stats)
    /\ LoopDone => total_tokens = TokensUpTo(layout.n)
    /\ \A j \in LinesOf("sum") : Figure(stdout[j].b) = TokensUpTo(layout.n)

\* a completed run over several extensions with failures, chunks out of order
C2_Witness ==
    /\ CompletedNormally
    /\ exit_status = 0
    /\ LinesOf("sum") # {}
    /\ Len(extension_stats) > 1
    /\ total_tokens > chunksize
    /\ Failing # {}
    /\ cur.task # length

-----------------------------------------------------------------------------
(* C3 *)

-----------------------------------------------------------------------------
(* C4 *)

\* C4, as claimed: the file figure of the SUM row is the number of candidate
\* files less the failed ones, and equals the sum of the file figures of the
\* rows above it.
C4_SumRowExcludesFailures ==
    \A j \in LinesOf("sum") :
        /\ Figure(stdout[j].a) = total_files - Cardinality(Failing)
        /\ Figure(stdout[j].a) = RowFiles(SubSeq(stdout, 1, j - 1))

-----------------------------------------------------------------------------
(* C8 *)

\* C8, as claimed: when the directory argument is missing or is not a
\* directory, the run never reaches the traversal and, left alone, ends with
\* status 1, never 0.
C8_InvalidDirectoryFails ==
    (directory # "dir" /\ interrupted_at = "never") =>
        /\ LinesOf("scanning") = {}
        /\ pc = "exit" => exit_status = 1

-----------------------------------------------------------------------------
(* C10 *)

\* C10, as claimed: once the loop of an uninterrupted run has run to its end,
\* verbose mode has printed exactly one progress line for every multiple of
\* 1000 up to total_files, reporting that many records and total_files,
\* whether or not the record at the multiple was a failure; without verbose
\* there is no progress line.
C10_ProgressEveryThousand ==
    (LoopDone /\ interrupted_at = "never") =>
        IF verbose
        THEN \A k \in 1..(total_files \div 1000) :
                Cardinality({j \in LinesOf("progress") :
                                /\ Figure(stdout[j].a) = 1000 * k
                                /\ Figure(stdout[j].b) = total_files}) = 1
        ELSE LinesOf("progress") = {}

-----------------------------------------------------------------------------
(* C5 *)

\* a byte the classifier accepts, as the claim lists them
AllowedByte(b) ==
    /\ b # 0
    /\ \/ b \in {7, 8, 9, 10, 12, 13, 27}
       \/ (b >= 32 /\ b <= 255)

\* what the claim says is_text_file returns for a file
ClaimedText(file) ==
    /\ file.status = "ok"
    /\ \A i \in DOMAIN file.content : i <= 512 => AllowedByte(file.content[i])

-----------------------------------------------------------------------------
(* C6 and C7 *)

\* the path get_all_text_files reports for a file of the tree
PathOf(f) == join(dir_path(tree.top, f.dir), f.name)

Yielded(f) == \E j \in DOMAIN walk_files : walk_files[j] = PathOf(f)

\* a list argument that is configured: given and not empty
Configured(l) == ~ l.is_none /\ l.items # <<>>

\* no component below the root is an entry of exclude_dirs
NotPruned(d) ==
    exclude_dirs.is_none \/
    \A k \in DOMAIN d : \A j \in DOMAIN exclude_dirs.items : d[k] # exclude_dirs.items[j]

\* the lower-cased name ends with the lower-cased form of an entry of l
EndsWithEntry(name, l) ==
    \E j \in DOMAIN l.items :
        LET e == lower(l.items[j])
            n == lower(name)
        IN  Len(e) <= Len(n) /\ \A k \in 1..Len(e) : n[Len(n) - Len(e) + k] = e[k]

\* C6: a file of a directory that is not pruned is yielded exactly when it
\* classifies as text, and no inclusion list is configured or its lower-cased
\* name ends with the lower-cased form of an inclusion entry, and no exclusion
\* list is configured or its lower-cased name ends with no lower-cased
\* exclusion entry.
C6_Filter ==
    walk_pc = "done" =>
        \A f \in tree.files :
            NotPruned(f.dir) =>
                (Yielded(f) <=>
                    /\ ClaimedText(f)
                    /\ ~ Configured(include_exts) \/ EndsWithEntry(f.name, include_exts)
                    /\ ~ Configured(exclude_exts) \/ ~ EndsWithEntry(f.name, exclude_exts))

\* an inclusion of .PY lets foo.py through, in every directory of the tree
C6_Witness ==
    /\ walk_pc = "done"
    /\ include_exts = List(<< <<".", "P", "Y">> >>)
    /\ exclude_exts = List(<< <<".", "M", "D">> >>)
    /\ exclude_dirs = List(<<>>)
    /\ \A f \in tree.files : f.name = <<"f", "o", "o", ".", "p", "y">> /\ Yielded(f)
    /\ Cardinality(tree.dirs) > 3

\* C7: a directory is visited exactly when none of its components below the
\* root equals an entry of exclude_dirs, at whatever depth; so no returned
\* path lies under an excluded name, and a directory is pruned neither for
\* its full path or the root's name nor for a name that only contains an
\* excluded name.
C7_PruneByName ==
    walk_pc = "done" =>
        /\ \A d \in tree.dirs : d \in walked <=> NotPruned(d)
        /\ \A f \in tree.files : ~ NotPruned(f.dir) => ~ Yielded(f)
        /\ \A j \in DOMAIN walk_files :
              \E f \in tree.files : PathOf(f) = walk_files[j] /\ NotPruned(f.dir)

\* .git excluded: a .git two levels down is pruned under a .github that is
\* walked, below a root that is itself called .git, and files are returned
C7_Witness ==
    /\ walk_pc = "done"
    /\ exclude_dirs = List(<< <<".", "g", "i", "t">> >>)
    /\ tree.top = <<".", "g", "i", "t">>
    /\ \E d \in tree.dirs :
          /\ Len(d) = 2
          /\ d[1] = <<".", "g", "i", "t", "h", "u", "b">>
          /\ d[2] = <<".", "g", "i", "t">>
          /\ d \notin walked
          /\ SubSeq(d, 1, 1) \in walked
    /\ Len(walk_files) > 1

-----------------------------------------------------------------------------
(* C9 *)

\* the last component of a path
Basename(p) == SubSeq(p, rfind(p, "/") + 1, Len(p))

\* the part of a name from its last '.' on
FromLastDot(name) == SubSeq(name, rfind(name, "."), Len(name))

\* C9, as claimed: for a file that is tokenized, the label is the part of
\* the file name from its last '.' on, lower-cased, and it is "No Extension"
\* exactly when the file name holds no '.'.
C9_LastDot ==
    (ct_ret.called /\ ct_file.status = "ok") =>
        LET name == Basename(ct_file.path) IN
        ct_ret.out[1] = IF \E k \in DOMAIN name : name[k] = "."
                        THEN lower(FromLastDot(name))
                        ELSE NoExtension

\* C9, amended: the label is the part of the file name from its last '.' on,
\* lower-cased, when some character other than '.' comes before that '.' in
\* the file name; otherwise (no '.', or nothing but '.' before the last one,
\* as in .bashrc) it is "No Extension".  The directory part never counts.
C9_LastDotAfterName ==
    (ct_ret.called /\ ct_file.status = "ok") =>
        LET name == Basename(ct_file.path)
            last == rfind(name, ".")
        IN  /\ ct_ret.out[2] = ct_file.ntokens
            /\ ct_ret.out[1] = IF \E k \in 1..(last - 1) : name[k] # "."
                               THEN lower(FromLastDot(name))
                               ELSE NoExtension

\* .bashrc in a directory whose name has a dot gets "No Extension"
C9_Witness ==
    /\ ct_ret.called
    /\ ct_file.path = <<"a", ".", "b", "/", ".", "b", "a", "s", "h", "r", "c">>
    /\ ct_file.status = "ok"
    /\ ct_ret.out = <<NoExtension, MaxTokens>>

====
